---------------------------- MODULE Spec2Model ----------------------------
(***************************************************************************)
(* A model of dms_storage_s3/utils/connection.py: the Connection wrapper   *)
(* around the S3 client, the bucket naming helper and the environment /    *)
(* configuration lookup.                                                   *)
(*                                                                         *)
(* Python strings are sequences of one-character strings, so that upper(), *)
(* lower(), urlsplit() and slugify() are computed character by character.  *)
(* A Python value is None or Str(s).  Literal message texts are TLA+       *)
(* strings.                                                                *)
(*                                                                         *)
(* Three specifications share the variables:                               *)
(*   SpecConfig  _get_env_or_config, Connection.__init__, get_bucket_name  *)
(*   SpecBucket  create_bucket, delete_bucket, upload_fileobj, run by      *)
(*               concurrent callers against one remote                     *)
(*   SpecDelete  delete_objects and its chunking                           *)
(***************************************************************************)
EXTENDS Integers, Sequences, FiniteSets, TLC

VARIABLES
    environ,        \* os.environ: variable name -> Python value (None: unset)
    config,         \* odoo.tools.config: option name -> Python value
    last,           \* the last module-level call: its name, arguments, outcome
    region_name,    \* Connection.region_name
    s3_resource,    \* Connection._s3_resource: None or the boto3.resource call
    buckets,        \* the remote: existing bucket name -> set of object keys
    calls,          \* caller -> the remote calls its method issued, in order,
                    \*           each with the remote's response
    pc,             \* caller -> position in the method it runs
    frame,          \* caller -> arguments and locals of the method it runs
    ret             \* caller -> outcome of the last method it ran

vars == <<environ, config, last, region_name, s3_resource,
          buckets, calls, pc, frame, ret>>

confVars == <<environ, config, last>>
connVars == <<region_name, s3_resource>>
remoteVars == <<buckets>>
callerVars == <<calls, pc, frame, ret>>

(***************************************************************************)
(* Python values and strings                                               *)
(***************************************************************************)
None == [t |-> "NoneType"]

Str(s) == [t |-> "str", v |-> s]

\* bool(x) of a Python value: None and "" are falsy.
Truthy(x) == x.t = "str" /\ Len(x.v) > 0

\* Python's `a or b`.
PyOr(a, b) == IF Truthy(a) THEN a ELSE b

LowerLetters ==
    <<"a","b","c","d","e","f","g","h","i","j","k","l","m",
      "n","o","p","q","r","s","t","u","v","w","x","y","z">>

UpperLetters ==
    <<"A","B","C","D","E","F","G","H","I","J","K","L","M",
      "N","O","P","Q","R","S","T","U","V","W","X","Y","Z">>

Digits == {"0","1","2","3","4","5","6","7","8","9"}

IndexIn(seq, c) == CHOOSE i \in 1..Len(seq) : seq[i] = c

IsLower(c) == \E i \in 1..Len(LowerLetters) : LowerLetters[i] = c

IsUpper(c) == \E i \in 1..Len(UpperLetters) : UpperLetters[i] = c

UpperChar(c) == IF IsLower(c) THEN UpperLetters[IndexIn(LowerLetters, c)] ELSE c

LowerChar(c) == IF IsUpper(c) THEN LowerLetters[IndexIn(UpperLetters, c)] ELSE c

\* str.upper() and str.lower()
Upper(s) == [i \in 1..Len(s) |-> UpperChar(s[i])]

Lower(s) == [i \in 1..Len(s) |-> LowerChar(s[i])]

(***************************************************************************)
(* The setting names                                                       *)
(***************************************************************************)
aws_host == <<"a","w","s","_","h","o","s","t">>

aws_region == <<"a","w","s","_","r","e","g","i","o","n">>

aws_access_key_id ==
    <<"a","w","s","_","a","c","c","e","s","s","_","k","e","y","_","i","d">>

aws_secret_access_key ==
    <<"a","w","s","_","s","e","c","r","e","t","_",
      "a","c","c","e","s","s","_","k","e","y">>

aws_bucket_prefix ==
    <<"a","w","s","_","b","u","c","k","e","t","_","p","r","e","f","i","x">>

Aws_Region == <<"A","w","s","_","R","e","g","i","o","n">>

AWS_REGION == <<"A","W","S","_","R","E","G","I","O","N">>

(***************************************************************************)
(* The values a setting may hold.  A cell of the environment or of the     *)
(* configuration is unset (None), empty, or holds the one non-empty value  *)
(* of its store and name; the two stores' values differ, so that the       *)
(* source of a resolved value can be told.                                 *)
(***************************************************************************)
s3_example == <<"s","3",".","e","x">>

http_s3_example == <<"h","t","t","p",":","/","/","s","3",".","e","x">>

EnvValue(name) ==
    CASE Lower(name) = aws_host -> s3_example
      [] Lower(name) = aws_region -> <<"e","u">>
      [] Lower(name) = aws_bucket_prefix -> <<"D","e","m","o">>
      [] OTHER -> <<"E","K">>

ConfValue(name) ==
    CASE Lower(name) = aws_host -> http_s3_example
      [] Lower(name) = aws_region -> <<"u","s">>
      [] Lower(name) = aws_bucket_prefix -> <<"c","_","f">>
      [] OTHER -> <<"C","K">>

\* os.environ.get(name)
EnvironGet(name) == IF name \in DOMAIN environ THEN environ[name] ELSE None

\* config.get(name)
ConfigGet(name) == IF name \in DOMAIN config THEN config[name] ELSE None

\* _get_env_or_config with the two sources in the other order.
GetEnvOrConfigConfigFirst(key) ==
    PyOr(ConfigGet(Lower(key)), EnvironGet(Upper(key)))

\* _get_env_or_config(key), lines 135-137
GetEnvOrConfig(key) == PyOr(EnvironGet(Upper(key)), ConfigGet(Lower(key)))

(***************************************************************************)
(* urlsplit(url).scheme: the text before the first ':' when it starts with *)
(* a letter and holds only letters, digits, '+', '-' and '.'; else empty.  *)
(***************************************************************************)
IsLetter(c) == IsLower(c) \/ IsUpper(c)

IsSchemeChar(c) == IsLetter(c) \/ c \in Digits \/ c \in {"+", "-", "."}

\* url.find(":"), 1-based; 0 when there is none
FindColon(url) ==
    IF \E i \in 1..Len(url) : url[i] = ":"
    THEN CHOOSE i \in 1..Len(url) :
            url[i] = ":" /\ \A j \in 1..(i - 1) : url[j] # ":"
    ELSE 0

UrlScheme(url) ==
    LET i == FindColon(url) IN
    IF i > 1 /\ IsLetter(url[1]) /\ \A j \in 1..(i - 1) : IsSchemeChar(url[j])
    THEN Lower(SubSeq(url, 1, i - 1))
    ELSE <<>>

https_prefix == <<"h","t","t","p","s",":","/","/">>

\* Lines 31-35: the host with "https://" before it when it has no scheme.
ResolvedHost ==
    LET host == GetEnvOrConfig(aws_host) IN
    IF Truthy(host) /\ UrlScheme(host.v) = <<>>
    THEN Str(https_prefix \o host.v)
    ELSE host

\* Lines 41-51: the keyword arguments of boto3.resource.
ClientParams(host, region, access_key, secret_key) ==
    LET keys == {"aws_access_key_id", "aws_secret_access_key"}
                \cup (IF Truthy(host) THEN {"endpoint_url"} ELSE {})
                \cup (IF Truthy(region) THEN {"region_name"} ELSE {})
    IN [k \in keys |->
            CASE k = "aws_access_key_id" -> access_key
              [] k = "aws_secret_access_key" -> secret_key
              [] k = "endpoint_url" -> host
              [] k = "region_name" -> region]

\* Line 53 with `and` for `or`: one missing credential is enough.
CredentialsMissingEither(access_key, secret_key) ==
    ~(Truthy(access_key) /\ Truthy(secret_key))

\* Line 53: not (access_key or secret_key)
CredentialsMissing(access_key, secret_key) ==
    ~(Truthy(access_key) \/ Truthy(secret_key))

ConfigurationErrorText ==
    "If you want to read from the S3 buckets, the following environment variables must be set:\n* AWS_ACCESS_KEY_ID\n* AWS_SECRET_ACCESS_KEY\nOptionally, the S3 host can be changed with:\n* AWS_HOST\n"

\* An exception: its class, its message text and the name the text carries
\* (and, for a botocore ClientError, response["Error"]["Code"]).
Exc(type, text, arg) == [type |-> type, code |-> "", text |-> text, arg |-> arg]

ClientError(code, text) ==
    [type |-> "ClientError", code |-> code, text |-> text, arg |-> <<>>]

Returned(value) == [kind |-> "return", value |-> value]

Raised(exc) == [kind |-> "raise", exc |-> exc]

(***************************************************************************)
(* slugify(text) of python-slugify, on ASCII text: lower-case it, turn     *)
(* every character that is not a letter, a digit or '-' into '-', keep one *)
(* '-' of each run, and strip the '-' at both ends.                        *)
(***************************************************************************)
IsSlugChar(c) == IsLower(c) \/ c \in Digits

SlugMap(s) ==
    [i \in 1..Len(s) |->
        LET c == LowerChar(s[i]) IN IF IsSlugChar(c) THEN c ELSE "-"]

RECURSIVE CollapseDashes(_)
CollapseDashes(s) ==
    IF Len(s) <= 1 THEN s
    ELSE IF s[1] = "-" /\ s[2] = "-" THEN CollapseDashes(Tail(s))
    ELSE <<s[1]>> \o CollapseDashes(Tail(s))

StripDashes(s) ==
    LET kept == {i \in 1..Len(s) : s[i] # "-"} IN
    IF kept = {} THEN <<>>
    ELSE LET lo == CHOOSE i \in kept : \A j \in kept : i <= j
             hi == CHOOSE i \in kept : \A j \in kept : j <= i
         IN SubSeq(s, lo, hi)

Slugify(text) == StripDashes(CollapseDashes(SlugMap(text)))

\* get_bucket_name with the configured prefix before the explicit one.
BucketNameConfigFirst(storage_name, user_prefix) ==
    LET prefix == PyOr(GetEnvOrConfig(aws_bucket_prefix), user_prefix) IN
    IF Truthy(prefix)
    THEN Slugify(prefix.v \o <<" ">> \o storage_name)
    ELSE Slugify(storage_name)

\* get_bucket_name(storage_name, user_prefix), lines 128-132
BucketName(storage_name, user_prefix) ==
    LET prefix == PyOr(user_prefix, GetEnvOrConfig(aws_bucket_prefix)) IN
    IF Truthy(prefix)
    THEN Slugify(prefix.v \o <<" ">> \o storage_name)
    ELSE Slugify(storage_name)

Callers == {1, 2}

NoCall == [op |-> "none"]

\* The variables a specification does not use.
IdleConnection == region_name = None /\ s3_resource = None

IdleRemote == buckets = <<>>

NoFrame == [method |-> "none"]

NoOutcome == [kind |-> "none"]

IdleCallers ==
    /\ calls = [p \in Callers |-> <<>>]
    /\ pc = [p \in Callers |-> "idle"]
    /\ frame = [p \in Callers |-> NoFrame]
    /\ ret = [p \in Callers |-> NoOutcome]

\* The values the cell `name` of the environment, of the configuration, holds.
EnvCell(name) == {None, Str(<<>>), Str(EnvValue(name))}

ConfCell(name) == {None, Str(<<>>), Str(ConfValue(name))}

(***************************************************************************)
(* SpecResolve: the environment and the configuration change, and          *)
(* _get_env_or_config is called in between.                                *)
(***************************************************************************)
\* The keys _get_env_or_config is called with here: two of the module's
\* own, and the region key in upper and in mixed case.
ResolveKeys == {aws_region, Aws_Region, AWS_REGION, aws_host}

\* The names set in the environment: the upper-case names the function
\* reads, and the lower-case region name, which it must not read.
ResolveEnvNames == {Upper(k) : k \in ResolveKeys} \cup {aws_region}

\* The options set in the configuration: the lower-case names the function
\* reads, and the upper-case region name, which it must not read.
ResolveConfNames == {Lower(k) : k \in ResolveKeys} \cup {AWS_REGION}

\* os.environ[name] = value, or del os.environ[name]
SetEnv(name, value) ==
    /\ environ' = [environ EXCEPT ![name] = value]
    /\ UNCHANGED <<config, last, connVars, remoteVars, callerVars>>

\* config[name] = value, or the option removed
SetConfig(name, value) ==
    /\ config' = [config EXCEPT ![name] = value]
    /\ UNCHANGED <<environ, last, connVars, remoteVars, callerVars>>

\* A call of _get_env_or_config(key).
CallGetEnvOrConfig(key) ==
    /\ last' = [op |-> "_get_env_or_config", key |-> key,
                result |-> GetEnvOrConfig(key)]
    /\ UNCHANGED <<environ, config, connVars, remoteVars, callerVars>>

InitResolve ==
    /\ environ = [n \in ResolveEnvNames |-> None]
    /\ config = [n \in ResolveConfNames |-> None]
    /\ last = NoCall
    /\ IdleConnection /\ IdleRemote /\ IdleCallers

NextResolve ==
    \/ \E n \in DOMAIN environ : \E v \in EnvCell(n) : SetEnv(n, v)
    \/ \E n \in DOMAIN config : \E v \in ConfCell(n) : SetConfig(n, v)
    \/ \E k \in ResolveKeys : CallGetEnvOrConfig(k)

SpecResolve == InitResolve /\ [][NextResolve]_vars

(***************************************************************************)
(* SpecName: get_bucket_name under every setting of the bucket prefix.     *)
(***************************************************************************)
StorageNames ==
    {<<"M","y"," ","B">>, <<"d","-","-","1","_">>, <<"_">>, <<"a","b">>}

UserPrefixes == {None, Str(<<>>), Str(<<"U","p">>), Str(<<"-"," ">>)}

\* A call of get_bucket_name(storage_name, user_prefix).
CallGetBucketName(storage_name, user_prefix) ==
    /\ last' = [op |-> "get_bucket_name", storage_name |-> storage_name,
                user_prefix |-> user_prefix,
                result |-> Str(BucketName(storage_name, user_prefix))]
    /\ UNCHANGED <<environ, config, connVars, remoteVars, callerVars>>

InitName ==
    /\ environ \in [{Upper(aws_bucket_prefix), aws_bucket_prefix} ->
                        EnvCell(aws_bucket_prefix)]
    /\ config \in [{aws_bucket_prefix} -> ConfCell(aws_bucket_prefix)]
    /\ last = NoCall
    /\ IdleConnection /\ IdleRemote /\ IdleCallers

NextName ==
    \E n \in StorageNames : \E u \in UserPrefixes : CallGetBucketName(n, u)

SpecName == InitName /\ [][NextName]_vars

(***************************************************************************)
(* SpecConnect: Connection() under every setting of the host, the region   *)
(* and the two credentials.                                                *)
(***************************************************************************)
ConnectKeys == {aws_host, aws_region, aws_access_key_id, aws_secret_access_key}

\* Connection(): lines 30-66.  self.region_name is assigned before the
\* credentials are looked at; boto3.resource is called only past line 63.
Construct ==
    LET host == ResolvedHost
        region == GetEnvOrConfig(aws_region)
        access_key == GetEnvOrConfig(aws_access_key_id)
        secret_key == GetEnvOrConfig(aws_secret_access_key)
        params == ClientParams(host, region, access_key, secret_key)
    IN /\ region_name' = region
       /\ IF CredentialsMissing(access_key, secret_key)
          THEN /\ s3_resource' = None
               /\ last' = [op |-> "Connection",
                           result |-> Raised(Exc("UserError",
                                           ConfigurationErrorText, <<>>))]
          ELSE /\ s3_resource' = [t |-> "boto3.resource", service |-> "s3",
                                  params |-> params]
               /\ last' = [op |-> "Connection", result |-> Returned(None)]
       /\ UNCHANGED <<environ, config, remoteVars, callerVars>>

InitConnect ==
    /\ environ \in [{Upper(k) : k \in ConnectKeys} -> UNION {EnvCell(k) : k \in ConnectKeys}]
    /\ \A n \in DOMAIN environ : environ[n] \in EnvCell(n)
    /\ config \in [ConnectKeys -> UNION {ConfCell(k) : k \in ConnectKeys}]
    /\ \A n \in DOMAIN config : config[n] \in ConfCell(n)
    /\ last = NoCall
    /\ IdleConnection /\ IdleRemote /\ IdleCallers

NextConnect == Construct

SpecConnect == InitConnect /\ [][NextConnect]_vars

(***************************************************************************)
(* The remote object storage, as the wrapped client shows it: a call       *)
(* returns a response or raises.  Any call may fail to reach the endpoint. *)
(***************************************************************************)
Ok(body) == [status |-> "ok", body |-> body]

Err(exc) == [status |-> "error", exc |-> exc]

EndpointConnectionError ==
    Exc("EndpointConnectionError", "Could not connect to the endpoint URL", <<>>)

NotFound ==
    ClientError("404",
        "An error occurred (404) when calling the HeadBucket operation: Not Found")

Forbidden ==
    ClientError("403",
        "An error occurred (403) when calling the HeadBucket operation: Forbidden")

NoSuchBucket ==
    ClientError("NoSuchBucket",
        "An error occurred (NoSuchBucket): The specified bucket does not exist")

BucketNotEmpty ==
    ClientError("BucketNotEmpty",
        "An error occurred (BucketNotEmpty): The bucket you tried to delete is not empty")

BucketAlreadyOwnedByYou ==
    ClientError("BucketAlreadyOwnedByYou",
        "An error occurred (BucketAlreadyOwnedByYou): Your previous request to create the named bucket succeeded and you already own it")

Exists(b) == b \in DOMAIN buckets

\* head_bucket(Bucket=b): success for a bucket that exists and may be read,
\* 404 for one that does not exist, 403 for one that may not be read.
HeadBucketResponses(b) ==
    (IF Exists(b) THEN {Ok(None)} ELSE {Err(NotFound)})
    \cup {Err(Forbidden), Err(EndpointConnectionError)}

\* create_bucket(Bucket=b, ...)
CreateBucketResponses(b) ==
    (IF Exists(b) THEN {Err(BucketAlreadyOwnedByYou)}
     ELSE {Ok([Location |-> b])})
    \cup {Err(EndpointConnectionError)}

Min(a, b) == IF a <= b THEN a ELSE b

\* list_objects_v2(Bucket=b, MaxKeys=n)
ListObjectsResponses(b, n) ==
    (IF Exists(b) THEN {Ok([KeyCount |-> Min(Cardinality(buckets[b]), n)])}
     ELSE {Err(NoSuchBucket)})
    \cup {Err(EndpointConnectionError)}

\* delete_bucket(Bucket=b)
DeleteBucketResponses(b) ==
    (IF ~Exists(b) THEN {Err(NoSuchBucket)}
     ELSE IF buckets[b] # {} THEN {Err(BucketNotEmpty)}
     ELSE {Ok(None)})
    \cup {Err(EndpointConnectionError)}

\* upload_fileobj(fd, b, key)
UploadResponses(b) ==
    (IF Exists(b) THEN {Ok(None)} ELSE {Err(NoSuchBucket)})
    \cup {Err(EndpointConnectionError)}

\* The remote once the call answered r.
WithBucket(b, keys) ==
    [x \in DOMAIN buckets \cup {b} |-> IF x = b THEN keys ELSE buckets[x]]

WithoutBucket(b) == [x \in DOMAIN buckets \ {b} |-> buckets[x]]

\* One remote call of a caller's method, as the client records it.
Call(api, kwargs, response) ==
    [api |-> api, kwargs |-> kwargs, response |-> response]

(***************************************************************************)
(* SpecBucket: the callers share one Connection and run create_bucket,     *)
(* delete_bucket and upload_fileobj against the remote.  A step is one     *)
(* remote call together with the local code that follows it, up to the     *)
(* next remote call or the end of the method.                              *)
(***************************************************************************)
MaxObjects == 2     \* the objects a bucket holds at most

MaxKeys == 1        \* line 122: MaxKeys=1

BucketNames == {<<"b","1">>, <<"b","2">>}

ObjectKeys == 1..MaxObjects

\* The region_name a Connection may hold: what _get_env_or_config returns.
RegionNames == {None, Str(<<>>), Str(<<"e","u">>)}

BucketAlreadyExistsException(bucket_name) ==
    Exc("BucketAlreadyExistsException",
        "Bucket {bucket_name} already exists within your cloud provider",
        bucket_name)

NonEmptyBucketException(bucket_name) ==
    Exc("NonEmptyBucketException", "Bucket {bucket_name} is not empty",
        bucket_name)

\* exceptions.UserError(str(e))
UserError(e) == Exc("UserError", e.text, <<>>)

\* _bucket_exists taking every ClientError for "not found".
BucketExistsAnyClientError(r) ==
    IF r.status = "ok" THEN Returned(TRUE)
    ELSE IF r.exc.type = "ClientError" THEN Returned(FALSE)
    ELSE Raised(UserError(r.exc))

\* _bucket_exists, lines 80-94, on the answer r of head_bucket
BucketExists(r) ==
    IF r.status = "ok" THEN Returned(TRUE)
    ELSE IF r.exc.type = "ClientError"
         THEN IF r.exc.code = "404" THEN Returned(FALSE)
              ELSE Raised(UserError(r.exc))
    ELSE IF r.exc.type = "EndpointConnectionError"
         THEN Raised(UserError(r.exc))
    ELSE Raised(r.exc)

\* Lines 73-78 with `is not None` for the truth test of region_name.
CreateBucketKwargsNotNone(bucket_name) ==
    IF region_name # None
    THEN [Bucket |-> bucket_name,
          CreateBucketConfiguration |-> [LocationConstraint |-> region_name.v]]
    ELSE [Bucket |-> bucket_name]

\* Lines 73-78: the keyword arguments of the remote create_bucket call.
CreateBucketKwargs(bucket_name) ==
    IF Truthy(region_name)
    THEN [Bucket |-> bucket_name,
          CreateBucketConfiguration |-> [LocationConstraint |-> region_name.v]]
    ELSE [Bucket |-> bucket_name]

\* What a method does with the answer r of its last remote call: return
\* the body, or let the exception through.
Outcome(r) == IF r.status = "ok" THEN Returned(r.body) ELSE Raised(r.exc)

Finish(p, outcome) ==
    /\ pc' = [pc EXCEPT ![p] = "idle"]
    /\ ret' = [ret EXCEPT ![p] = outcome]

Goto(p, label) ==
    /\ pc' = [pc EXCEPT ![p] = label]
    /\ ret' = [ret EXCEPT ![p] = NoOutcome]

\* create_bucket without lines 70-71: the result of the check is dropped.
CreateBucketProbeUnchecked(p, b) ==
    /\ pc[p] = "idle"
    /\ \E r \in HeadBucketResponses(b) :
        LET exists == BucketExists(r) IN
        /\ calls' = [calls EXCEPT ![p] = <<Call("head_bucket", [Bucket |-> b], r)>>]
        /\ frame' = [frame EXCEPT ![p] =
                        [method |-> "create_bucket", bucket_name |-> b,
                         exists |-> exists]]
        /\ IF exists.kind = "raise" THEN Finish(p, exists)
           ELSE Goto(p, "create_bucket:73")
    /\ UNCHANGED <<confVars, connVars, buckets>>

\* create_bucket, lines 69-71: the existence check and what follows from it.
CreateBucketProbe(p, b) ==
    /\ pc[p] = "idle"
    /\ \E r \in HeadBucketResponses(b) :
        LET exists == BucketExists(r) IN
        /\ calls' = [calls EXCEPT ![p] = <<Call("head_bucket", [Bucket |-> b], r)>>]
        /\ frame' = [frame EXCEPT ![p] =
                        [method |-> "create_bucket", bucket_name |-> b,
                         exists |-> exists]]
        /\ IF exists.kind = "raise" THEN Finish(p, exists)
           ELSE IF exists.value
                THEN Finish(p, Raised(BucketAlreadyExistsException(b)))
                ELSE Goto(p, "create_bucket:73")
    /\ UNCHANGED <<confVars, connVars, buckets>>

\* create_bucket holding a lock over the check and the create: the create
\* call is issued only while the bucket still does not exist.
CreateBucketCreateLocked(p) ==
    /\ pc[p] = "create_bucket:73"
    /\ LET b == frame[p].bucket_name IN
       IF Exists(b)
       THEN /\ Finish(p, Raised(BucketAlreadyExistsException(b)))
            /\ UNCHANGED <<calls, buckets>>
       ELSE \E r \in CreateBucketResponses(b) :
            /\ calls' = [calls EXCEPT ![p] =
                        Append(@, Call("create_bucket", CreateBucketKwargs(b), r))]
            /\ buckets' = IF r.status = "ok" THEN WithBucket(b, {}) ELSE buckets
            /\ Finish(p, Outcome(r))
    /\ UNCHANGED <<confVars, connVars, frame>>

\* create_bucket, lines 73-78: the remote create call; its answer is returned.
CreateBucketCreate(p) ==
    /\ pc[p] = "create_bucket:73"
    /\ LET b == frame[p].bucket_name IN
       \E r \in CreateBucketResponses(b) :
        /\ calls' = [calls EXCEPT ![p] =
                        Append(@, Call("create_bucket", CreateBucketKwargs(b), r))]
        /\ buckets' = IF r.status = "ok" THEN WithBucket(b, {}) ELSE buckets
        /\ Finish(p, Outcome(r))
    /\ UNCHANGED <<confVars, connVars, frame>>

\* delete_bucket without lines 123-124: the key count is not looked at.
DeleteBucketListUnchecked(p, b) ==
    /\ pc[p] = "idle"
    /\ \E r \in ListObjectsResponses(b, MaxKeys) :
        /\ calls' = [calls EXCEPT ![p] =
                <<Call("list_objects_v2", [Bucket |-> b, MaxKeys |-> MaxKeys], r)>>]
        /\ frame' = [frame EXCEPT ![p] =
                        [method |-> "delete_bucket", bucket_name |-> b, r |-> r]]
        /\ IF r.status = "error" THEN Finish(p, Raised(r.exc))
           ELSE Goto(p, "delete_bucket:125")
    /\ UNCHANGED <<confVars, connVars, buckets>>

\* delete_bucket, lines 122-124: the listing and what follows from it.
DeleteBucketList(p, b) ==
    /\ pc[p] = "idle"
    /\ \E r \in ListObjectsResponses(b, MaxKeys) :
        /\ calls' = [calls EXCEPT ![p] =
                <<Call("list_objects_v2", [Bucket |-> b, MaxKeys |-> MaxKeys], r)>>]
        /\ frame' = [frame EXCEPT ![p] =
                        [method |-> "delete_bucket", bucket_name |-> b, r |-> r]]
        /\ IF r.status = "error" THEN Finish(p, Raised(r.exc))
           ELSE IF r.body.KeyCount > 0
                THEN Finish(p, Raised(NonEmptyBucketException(b)))
                ELSE Goto(p, "delete_bucket:125")
    /\ UNCHANGED <<confVars, connVars, buckets>>

\* delete_bucket, line 125: the remote delete call.
DeleteBucketDelete(p) ==
    /\ pc[p] = "delete_bucket:125"
    /\ LET b == frame[p].bucket_name IN
       \E r \in DeleteBucketResponses(b) :
        /\ calls' = [calls EXCEPT ![p] =
                        Append(@, Call("delete_bucket", [Bucket |-> b], r))]
        /\ buckets' = IF r.status = "ok" THEN WithoutBucket(b) ELSE buckets
        /\ Finish(p, IF r.status = "ok" THEN Returned(None) ELSE Raised(r.exc))
    /\ UNCHANGED <<confVars, connVars, frame>>

\* upload_fileobj, lines 100-101
UploadFileobj(p, b, key) ==
    /\ pc[p] = "idle"
    /\ \E r \in UploadResponses(b) :
        /\ calls' = [calls EXCEPT ![p] =
                <<Call("upload_fileobj", [Bucket |-> b, Key |-> key], r)>>]
        /\ frame' = [frame EXCEPT ![p] =
                        [method |-> "upload_fileobj", bucket_name |-> b, key |-> key]]
        /\ buckets' = IF r.status = "ok"
                      THEN WithBucket(b, buckets[b] \cup {key}) ELSE buckets
        /\ Finish(p, Outcome(r))
    /\ UNCHANGED <<confVars, connVars>>

InitBucket ==
    /\ environ = <<>> /\ config = <<>> /\ last = NoCall
    /\ region_name \in RegionNames
    /\ s3_resource = [t |-> "boto3.resource", service |-> "s3"]
    /\ IdleRemote /\ IdleCallers

NextBucket ==
    \E p \in Callers :
        \/ \E b \in BucketNames : CreateBucketProbe(p, b)
        \/ CreateBucketCreate(p)
        \/ \E b \in BucketNames : DeleteBucketList(p, b)
        \/ DeleteBucketDelete(p)
        \/ \E b \in BucketNames : \E k \in ObjectKeys : UploadFileobj(p, b, k)

SpecBucket == InitBucket /\ [][NextBucket]_vars

(***************************************************************************)
(* SpecDelete: one caller runs delete_objects once, on a key list of any   *)
(* length up to MaxLen; every remote call may fail.                        *)
(***************************************************************************)
s3_limit == 1000    \* line 110

MaxLen == 2500      \* the longest key list

KeyMod == 7         \* the repeating key lists hold the keys 1..KeyMod

\* The key lists: the keys 1..n in order, all distinct, and a list of the
\* same length whose keys repeat.
DistinctKeys(n) == [i \in 1..n |-> i]

RepeatingKeys(n) == [i \in 1..n |-> ((i * i) % KeyMod) + 1]

\* Lines 111-114 with the slice one key too long: key_list[i : i + s3_limit + 1]
ChunksOverlapping(key_list) ==
    LET n == Len(key_list) IN
    [c \in 1..((n + s3_limit - 1) \div s3_limit) |->
        SubSeq(key_list, (c - 1) * s3_limit + 1, Min(c * s3_limit + 1, n))]

\* Lines 111-114: key_list[i : i + s3_limit] for i in range(0, len, s3_limit)
Chunks(key_list) ==
    LET n == Len(key_list) IN
    [c \in 1..((n + s3_limit - 1) \div s3_limit) |->
        SubSeq(key_list, (c - 1) * s3_limit + 1, Min(c * s3_limit, n))]

\* Line 118: [{"Key": k} for k in chunk]
Objects(chunk) == [j \in 1..Len(chunk) |-> [Key |-> chunk[j]]]

\* delete_objects(Bucket=b, Delete={"Objects": ...}): the body is not read.
DeleteObjectsResponses(b) ==
    (IF Exists(b) THEN {Ok(None)} ELSE {Err(NoSuchBucket)})
    \cup {Err(EndpointConnectionError)}

\* delete_objects, lines 110-114: the chunks; with none, the loop is skipped.
DeleteObjectsBegin(p, b, key_list) ==
    /\ pc[p] = "idle"
    /\ LET chunks == Chunks(key_list) IN
        /\ frame' = [frame EXCEPT ![p] =
                        [method |-> "delete_objects", bucket_name |-> b,
                         key_list |-> key_list, chunks |-> chunks, i |-> 1]]
        /\ calls' = [calls EXCEPT ![p] = <<>>]
        /\ IF chunks = <<>> THEN Finish(p, Returned(None))
           ELSE Goto(p, "delete_objects:117")
    /\ UNCHANGED <<confVars, connVars, buckets>>

\* delete_objects with the remote call in a try block that goes on to the
\* next chunk when a chunk fails.
DeleteObjectsCallContinue(p) ==
    /\ pc[p] = "delete_objects:117"
    /\ LET b == frame[p].bucket_name
           i == frame[p].i
           chunk == frame[p].chunks[i]
       IN \E r \in DeleteObjectsResponses(b) :
        /\ calls' = [calls EXCEPT ![p] =
                Append(@, Call("delete_objects",
                        [Bucket |-> b, Delete |-> [Objects |-> Objects(chunk)]], r))]
        /\ buckets' = IF r.status = "ok"
                      THEN WithBucket(b, buckets[b] \
                                {chunk[j] : j \in 1..Len(chunk)})
                      ELSE buckets
        /\ IF i = Len(frame[p].chunks)
           THEN Finish(p, Returned(None)) /\ UNCHANGED frame
           ELSE /\ frame' = [frame EXCEPT ![p].i = i + 1]
                /\ UNCHANGED <<pc, ret>>
    /\ UNCHANGED <<confVars, connVars>>

\* delete_objects, lines 116-119: the remote call for the next chunk.
DeleteObjectsCall(p) ==
    /\ pc[p] = "delete_objects:117"
    /\ LET b == frame[p].bucket_name
           i == frame[p].i
           chunk == frame[p].chunks[i]
       IN \E r \in DeleteObjectsResponses(b) :
        /\ calls' = [calls EXCEPT ![p] =
                Append(@, Call("delete_objects",
                        [Bucket |-> b, Delete |-> [Objects |-> Objects(chunk)]], r))]
        /\ buckets' = IF r.status = "ok"
                      THEN WithBucket(b, buckets[b] \
                                {chunk[j] : j \in 1..Len(chunk)})
                      ELSE buckets
        /\ IF r.status = "error"
           THEN Finish(p, Raised(r.exc)) /\ UNCHANGED frame
           ELSE IF i = Len(frame[p].chunks)
                THEN Finish(p, Returned(None)) /\ UNCHANGED frame
                ELSE /\ frame' = [frame EXCEPT ![p].i = i + 1]
                     /\ UNCHANGED <<pc, ret>>
    /\ UNCHANGED <<confVars, connVars>>

KeysBucket == <<"b","1">>

InitDelete ==
    /\ environ = <<>> /\ config = <<>> /\ last = NoCall
    /\ region_name = None
    /\ s3_resource = [t |-> "boto3.resource", service |-> "s3"]
    /\ buckets = [b \in {KeysBucket} |-> 1..MaxLen]
    /\ IdleCallers

NextDelete ==
    \/ /\ frame[1] = NoFrame
       /\ \E n \in 0..MaxLen :
            \E key_list \in {DistinctKeys(n), RepeatingKeys(n)} :
                DeleteObjectsBegin(1, KeysBucket, key_list)
    \/ DeleteObjectsCall(1)

SpecDelete == InitDelete /\ [][NextDelete]_vars

(***************************************************************************)
(* The properties                                                          *)
(***************************************************************************)
\* The keys a remote delete_objects call carries, in order.
KeysOf(call) ==
    LET objs == call.kwargs.Delete.Objects IN [j \in 1..Len(objs) |-> objs[j].Key]

\* The key lists of the first n calls, one after the other.
RECURSIVE KeysOfFirst(_, _)
KeysOfFirst(cs, n) ==
    IF n = 0 THEN <<>> ELSE KeysOfFirst(cs, n - 1) \o KeysOf(cs[n])

IsPrefix(s, t) == Len(s) <= Len(t) /\ s = SubSeq(t, 1, Len(s))

InDeleteObjects(p) == frame[p].method = "delete_objects"

\* C1: the delete calls of delete_objects carry between 1 and 1000 keys
\* each, every call before the last one issued carries exactly 1000, and
\* their key lists, one after the other, are the start of the key list; once
\* delete_objects has returned (every call succeeded) they are ceil(n/1000)
\* calls whose key lists, one after the other, are the key list itself, in
\* order and with its repetitions; for the empty list there is no call.
C1_ChunkedDeletes ==
    \A p \in Callers : InDeleteObjects(p) =>
        LET K == frame[p].key_list
            cs == calls[p]
            sent == KeysOfFirst(cs, Len(cs))
        IN /\ \A c \in 1..Len(cs) :
                /\ cs[c].api = "delete_objects"
                /\ cs[c].kwargs.Bucket = frame[p].bucket_name
                /\ Len(cs[c].kwargs.Delete.Objects) \in 1..1000
                /\ c < Len(cs) => Len(cs[c].kwargs.Delete.Objects) = 1000
           /\ IsPrefix(sent, K)
           /\ ret[p].kind = "return" =>
                /\ Len(sent) = Len(K)
                /\ 1000 * Len(cs) >= Len(K)
                /\ 1000 * Len(cs) < Len(K) + 1000
                /\ K = <<>> => cs = <<>>

\* delete_objects has returned for 2500 distinct keys after three calls of
\* 1000, 1000 and 500 keys.
C1_Witness ==
    /\ InDeleteObjects(1) /\ ret[1].kind = "return"
    /\ frame[1].key_list = DistinctKeys(2500)
    /\ Len(calls[1]) = 3
    /\ Len(KeysOf(calls[1][1])) = 1000
    /\ Len(KeysOf(calls[1][2])) = 1000
    /\ Len(KeysOf(calls[1][3])) = 500
    /\ KeysOf(calls[1][3])[1] = 2001

\* The keys of the first n chunks of the key list.
KeysDeleted(K, n) == {K[j] : j \in 1..Min(Len(K), 1000 * n)}

\* C10: a remote delete call that raises is the last call of delete_objects,
\* and delete_objects raises its exception, unchanged, at once: the calls
\* before it were the chunks before it, each issued once and answered, their
\* keys stay deleted, the failed chunk was sent once, and no call follows.
C10_FailStops ==
    \A p \in Callers : InDeleteObjects(p) =>
        LET K == frame[p].key_list
            cs == calls[p]
            k == Len(cs)
        IN /\ \A c \in 1..k : cs[c].response.status = "error" =>
                /\ c = k
                /\ pc[p] = "idle"
                /\ ret[p] = Raised(cs[c].response.exc)
           /\ ret[p].kind = "raise" =>
                /\ k >= 1
                /\ cs[k].response.status = "error"
                /\ \A c \in 1..(k - 1) : cs[c].response.status = "ok"
                /\ \A c \in 1..k :
                     KeysOf(cs[c]) =
                        SubSeq(K, 1000 * (c - 1) + 1, Min(1000 * c, Len(K)))
                /\ buckets[frame[p].bucket_name] =
                        (1..MaxLen) \ KeysDeleted(K, k - 1)

\* delete_objects has raised at the second of three chunks: the first 1000
\* keys are deleted, the others are not.
C10_Witness ==
    /\ InDeleteObjects(1) /\ ret[1].kind = "raise"
    /\ frame[1].key_list = DistinctKeys(2500)
    /\ Len(calls[1]) = 2
    /\ buckets[KeysBucket] = 1001..MaxLen

InCreateBucket(p) == frame[p].method = "create_bucket"

InDeleteBucket(p) == frame[p].method = "delete_bucket"

IsNotFound(r) ==
    r.status = "error" /\ r.exc.type = "ClientError" /\ r.exc.code = "404"

\* C2: when the existence probe of create_bucket reports success,
\* create_bucket raises the already-exists error carrying the bucket name and
\* issues no create call; a remote create call is issued only by
\* create_bucket, right after its probe of the same name answered 404.
C2_ExistingNotCreated ==
    \A p \in Callers :
        /\ InCreateBucket(p) =>
            /\ calls[p][1].api = "head_bucket"
            /\ calls[p][1].kwargs.Bucket = frame[p].bucket_name
            /\ calls[p][1].response.status = "ok" =>
                /\ pc[p] = "idle"
                /\ ret[p].kind = "raise"
                /\ ret[p].exc.type = "BucketAlreadyExistsException"
                /\ ret[p].exc.arg = frame[p].bucket_name
                /\ Len(calls[p]) = 1
        /\ \A c \in 1..Len(calls[p]) : calls[p][c].api = "create_bucket" =>
            /\ InCreateBucket(p)
            /\ c = 2
            /\ calls[p][1].api = "head_bucket"
            /\ calls[p][1].kwargs.Bucket = calls[p][c].kwargs.Bucket
            /\ IsNotFound(calls[p][1].response)

\* create_bucket has raised the already-exists error for a bucket that exists.
C2_Witness ==
    \E p \in Callers :
        /\ InCreateBucket(p) /\ pc[p] = "idle"
        /\ calls[p][1].response.status = "ok"
        /\ ret[p] = Raised(BucketAlreadyExistsException(frame[p].bucket_name))
        /\ frame[p].bucket_name \in DOMAIN buckets

\* C3: delete_bucket first lists the bucket with MaxKeys=1, and the listing
\* reports at most one key; when it reports a key, delete_bucket raises the
\* non-empty error carrying the bucket name and issues no delete call; when
\* it reports none, the one call that follows is the remote delete_bucket of
\* that bucket; delete_bucket issues no call that deletes objects.
C3_NonEmptyKept ==
    \A p \in Callers : InDeleteBucket(p) =>
        LET cs == calls[p]
            b == frame[p].bucket_name
        IN /\ cs[1].api = "list_objects_v2"
           /\ cs[1].kwargs = [Bucket |-> b, MaxKeys |-> 1]
           /\ \A c \in 1..Len(cs) : cs[c].api \in {"list_objects_v2", "delete_bucket"}
           /\ cs[1].response.status = "ok" =>
                /\ cs[1].response.body.KeyCount <= 1
                /\ cs[1].response.body.KeyCount > 0 =>
                    /\ pc[p] = "idle"
                    /\ ret[p].kind = "raise"
                    /\ ret[p].exc.type = "NonEmptyBucketException"
                    /\ ret[p].exc.arg = b
                    /\ Len(cs) = 1
                /\ cs[1].response.body.KeyCount = 0 =>
                    \/ pc[p] = "delete_bucket:125" /\ Len(cs) = 1
                    \/ /\ pc[p] = "idle"
                       /\ Len(cs) = 2
                       /\ cs[2].api = "delete_bucket"
                       /\ cs[2].kwargs = [Bucket |-> b]
           /\ cs[1].response.status = "error" => Len(cs) = 1

\* delete_bucket has raised the non-empty error for a bucket of two objects,
\* which is still there with both.
C3_Witness ==
    \E p \in Callers :
        /\ InDeleteBucket(p) /\ pc[p] = "idle"
        /\ ret[p] = Raised(NonEmptyBucketException(frame[p].bucket_name))
        /\ frame[p].bucket_name \in DOMAIN buckets
        /\ Cardinality(buckets[frame[p].bucket_name]) = 2

\* C5: the existence check returns true when the probe succeeds, false when
\* it raises a client error of code 404, and raises a UserError with the
\* text of the original error when the probe raises a client error of
\* another code or fails to reach the endpoint.
C5_ProbeOutcomes ==
    \A p \in Callers : InCreateBucket(p) =>
        LET r == calls[p][1].response
            out == frame[p].exists
        IN /\ r.status = "ok" => out.kind = "return" /\ out.value = TRUE
           /\ IsNotFound(r) => out.kind = "return" /\ out.value = FALSE
           /\ r.status = "error" /\ ~IsNotFound(r) =>
                /\ r.exc.type \in {"ClientError", "EndpointConnectionError"}
                /\ out.kind = "raise"
                /\ out.exc.type = "UserError"
                /\ out.exc.text = r.exc.text
                /\ ret[p] = out
           /\ out.kind = "return" => (out.value <=> r.status = "ok")

\* The existence check has raised a UserError for a client error of code 403.
C5_Witness ==
    \E p \in Callers :
        /\ InCreateBucket(p)
        /\ calls[p][1].response = Err(Forbidden)
        /\ ret[p].kind = "raise"
        /\ ret[p].exc.type = "UserError"
        /\ ret[p].exc.text = Forbidden.text

\* C7: a remote create call carries a location constraint exactly when the
\* Connection's region is a non-empty string, and the constraint is that
\* region; what create_bucket returns is the remote's answer to that call.
C7_LocationConstraint ==
    \A p \in Callers : InCreateBucket(p) =>
        /\ \A c \in 1..Len(calls[p]) : calls[p][c].api = "create_bucket" =>
            LET kw == calls[p][c].kwargs IN
            /\ kw.Bucket = frame[p].bucket_name
            /\ "CreateBucketConfiguration" \in DOMAIN kw
                    <=> (region_name # None /\ region_name.v # <<>>)
            /\ "CreateBucketConfiguration" \in DOMAIN kw =>
                    kw.CreateBucketConfiguration =
                        [LocationConstraint |-> region_name.v]
            /\ DOMAIN kw \subseteq {"Bucket", "CreateBucketConfiguration"}
        /\ ret[p].kind = "return" =>
            /\ Len(calls[p]) = 2
            /\ calls[p][2].api = "create_bucket"
            /\ calls[p][2].response.status = "ok"
            /\ ret[p].value = calls[p][2].response.body

\* create_bucket has returned the remote's answer to a create call that
\* carried the region "eu".
C7_Witness ==
    \E p \in Callers :
        /\ InCreateBucket(p) /\ ret[p].kind = "return"
        /\ region_name = Str(<<"e","u">>)
        /\ calls[p][2].kwargs.CreateBucketConfiguration.LocationConstraint
                = <<"e","u">>
        /\ ret[p].value = [Location |-> frame[p].bucket_name]

\* C9: create_bucket holds nothing between its probe and its create call:
\* a caller whose probe answered 404 never raises the already-exists error
\* itself, and ends having issued its create call, whatever another caller
\* of create_bucket for the same name did in between.
C9_CheckThenAct ==
    \A p \in Callers :
        (InCreateBucket(p) /\ IsNotFound(calls[p][1].response)) =>
            /\ ~(ret[p].kind = "raise"
                 /\ ret[p].exc.type = "BucketAlreadyExistsException")
            /\ pc[p] = "idle" =>
                /\ Len(calls[p]) = 2
                /\ calls[p][2].api = "create_bucket"
                /\ calls[p][2].kwargs.Bucket = frame[p].bucket_name

\* Two callers have run create_bucket for the same name, both probes
\* answered 404, and both issued the remote create call: one created the
\* bucket, the other got the remote's refusal.
C9_Witness ==
    \E p, q \in Callers :
        /\ p # q
        /\ InCreateBucket(p) /\ InCreateBucket(q)
        /\ frame[p].bucket_name = frame[q].bucket_name
        /\ pc[p] = "idle" /\ pc[q] = "idle"
        /\ IsNotFound(calls[p][1].response) /\ IsNotFound(calls[q][1].response)
        /\ Len(calls[p]) = 2 /\ calls[p][2].api = "create_bucket"
        /\ Len(calls[q]) = 2 /\ calls[q][2].api = "create_bucket"
        /\ calls[p][2].response.status = "ok"
        /\ calls[q][2].response = Err(BucketAlreadyOwnedByYou)

\* What a setting resolves to: the environment variable of the upper-case
\* name when it is set and not empty, else the configuration option of the
\* lower-case name, which is None when unset.
EnvSet(key) ==
    /\ Upper(key) \in DOMAIN environ
    /\ environ[Upper(key)] # None
    /\ environ[Upper(key)] # Str(<<>>)

Resolved(key) ==
    IF EnvSet(key) THEN environ[Upper(key)]
    ELSE IF Lower(key) \in DOMAIN config THEN config[Lower(key)]
    ELSE None

IsPresent(x) == x # None /\ x # Str(<<>>)

\* C4: Connection() raises the configuration error exactly when the access
\* key and the secret key both resolve to nothing or to the empty string,
\* and then constructs no client; otherwise it constructs the client, with
\* the endpoint exactly when a host was resolved and the region exactly when
\* a region was resolved.
C4_Construction ==
    last.op = "Connection" =>
        LET missing == ~IsPresent(Resolved(aws_access_key_id))
                       /\ ~IsPresent(Resolved(aws_secret_access_key))
        IN /\ last.result.kind = "raise" <=> missing
           /\ missing =>
                /\ last.result.exc.type = "UserError"
                /\ last.result.exc.text = ConfigurationErrorText
                /\ s3_resource = None
           /\ ~missing =>
                /\ last.result.kind = "return"
                /\ s3_resource # None
                /\ s3_resource.t = "boto3.resource"
                /\ "endpoint_url" \in DOMAIN s3_resource.params
                        <=> IsPresent(Resolved(aws_host))
                /\ "region_name" \in DOMAIN s3_resource.params
                        <=> IsPresent(Resolved(aws_region))

\* Connection() has constructed the client with the secret key alone, with
\* an endpoint and without a region.
C4_Witness ==
    /\ last.op = "Connection" /\ last.result.kind = "return"
    /\ ~IsPresent(Resolved(aws_access_key_id))
    /\ IsPresent(Resolved(aws_secret_access_key))
    /\ s3_resource # None
    /\ DOMAIN s3_resource.params =
            {"aws_access_key_id", "aws_secret_access_key", "endpoint_url"}
    /\ s3_resource.params["endpoint_url"] = Str(https_prefix \o s3_example)

\* The result of the last call of _get_env_or_config is what its key
\* resolves to now.
ResolvedNow ==
    last.op = "_get_env_or_config" => last.result = Resolved(last.key)

\* C6: every call of _get_env_or_config returns what the key resolves to
\* when it is made: the environment variable of the upper-case name when it
\* is set and not empty, whatever the configuration holds; else the
\* configuration option of the lower-case name; None or the empty string
\* when neither is set.  Nothing is kept from the calls made before.
C6_Resolution ==
    [][UNCHANGED <<environ, config>> => ResolvedNow']_vars

\* _get_env_or_config("Aws_Region") has returned the environment's AWS_REGION
\* while the configuration holds another aws_region.
C6_Witness ==
    /\ last.op = "_get_env_or_config" /\ last.key = Aws_Region
    /\ environ[AWS_REGION] = Str(<<"e","u">>)
    /\ config[aws_region] = Str(<<"u","s">>)
    /\ environ[aws_region] = Str(<<>>)
    /\ last.result = Str(<<"e","u">>)

\* slug(prefix + " " + storage_name) with a prefix, slug(storage_name) without
NameWith(prefix, storage_name) ==
    IF IsPresent(prefix)
    THEN Str(Slugify(prefix.v \o <<" ">> \o storage_name))
    ELSE Str(Slugify(storage_name))

\* C8 as stated: the explicit prefix, when one is given, is the effective
\* prefix; else the configured one.
C8_ExplicitGivenOverrides ==
    last.op = "get_bucket_name" =>
        last.result =
            NameWith(IF last.user_prefix # None THEN last.user_prefix
                     ELSE Resolved(aws_bucket_prefix),
                     last.storage_name)

\* C8, amended: the effective prefix is the explicit prefix when one is given
\* and is not the empty string, else the configured bucket prefix (the
\* environment before the configuration), else none; get_bucket_name returns
\* slug(prefix + " " + storage_name) with an effective prefix and
\* slug(storage_name) without.
C8_NonEmptyExplicitOverrides ==
    last.op = "get_bucket_name" =>
        last.result =
            NameWith(IF IsPresent(last.user_prefix) THEN last.user_prefix
                     ELSE Resolved(aws_bucket_prefix),
                     last.storage_name)

\* get_bucket_name("My B", "Up") has returned "up-my-b" while the environment
\* and the configuration both hold a prefix.
C8_Witness ==
    /\ last.op = "get_bucket_name"
    /\ last.storage_name = <<"M","y"," ","B">>
    /\ last.user_prefix = Str(<<"U","p">>)
    /\ IsPresent(environ[Upper(aws_bucket_prefix)])
    /\ IsPresent(config[aws_bucket_prefix])
    /\ last.result = Str(<<"u","p","-","m","y","-","b">>)

=============================================================================
